---------------------------- MODULE Spec2Model ----------------------------
(***************************************************************************)
(* Model of dxsr (src/dxsr/dxsr.py): search and replace over the text of   *)
(* a document whose visible text is split over many w:t text objects.      *)
(*                                                                         *)
(* A string is a sequence of one-character strings.  Python indexes from   *)
(* 0, TLA+ sequences from 1: every index below is the Python index and the *)
(* helpers Slice and At do the shift.  The text of an object that has no   *)
(* text (obj.text == None) is the value None, which is no string.          *)
(***************************************************************************)
EXTENDS Integers, Sequences, FiniteSets, TLC

(***************************************************************************)
(* Bounds of the model.                                                    *)
(***************************************************************************)
MaxFrags     == 2   \* text objects of a generated document
MaxLen       == 2   \* characters of one generated text object
MaxCalls     == 2   \* calls of the public methods in one behaviour
MaxReplacing == 1   \* of which calls that replace

(***************************************************************************)
(* Program constants.                                                      *)
(***************************************************************************)
peek_max_chars == 40

None == <<"None">>

Min(a, b) == IF a < b THEN a ELSE b

\* Python s[i:j] for 0 <= i, with j clamped to len(s) as Python does.
Slice(s, i, j) == SubSeq(s, i + 1, Min(j, Len(s)))

\* Python s[i:]
SliceFrom(s, i) == SubSeq(s, i + 1, Len(s))

RECURSIVE Concat(_)
\* "".join(list of strings)
Concat(ss) == IF ss = <<>> THEN <<>> ELSE Head(ss) \o Concat(Tail(ss))

Range(s) == {s[i] : i \in 1..Len(s)}

(***************************************************************************)
(* objects_to_text: the concatenated text of a list of text objects, the   *)
(* objects without text left out.  t is the function object -> text.       *)
(***************************************************************************)
RECURSIVE objects_to_text(_, _)
objects_to_text(text_objects, t) ==
    IF text_objects = <<>> THEN <<>>
    ELSE LET obj == Head(text_objects)
         IN  (IF t[obj] # None THEN t[obj] ELSE <<>>)
                 \o objects_to_text(Tail(text_objects), t)

(***************************************************************************)
(* The character map of find_matches: one entry per character, with the    *)
(* object the character belongs to and its position in that object.        *)
(***************************************************************************)
RECURSIVE ObjEntriesFromOne(_, _, _)
\* ObjEntries with a slip: the position is counted before the entry is made
ObjEntriesFromOne(obj, s, i) ==
    IF i >= Len(s) THEN <<>>
    ELSE <<[char |-> s[i + 1], text_object |-> obj, charpos |-> i + 1]>>
             \o ObjEntriesFromOne(obj, s, i + 1)

RECURSIVE ObjEntries(_, _, _)
\* the inner loop "for char in obj.text" with its counter i
ObjEntries(obj, s, i) ==
    IF i >= Len(s) THEN <<>>
    ELSE <<[char |-> s[i + 1], text_object |-> obj, charpos |-> i]>>
             \o ObjEntries(obj, s, i + 1)

RECURSIVE BuildTxtMap(_, _)
BuildTxtMap(text_objects, t) ==
    IF text_objects = <<>> THEN <<>>
    ELSE LET obj == Head(text_objects)
         IN  (IF t[obj] = None THEN <<>> ELSE ObjEntries(obj, t[obj], 0))
                 \o BuildTxtMap(Tail(text_objects), t)

RECURSIVE UniqKeepsAll(_, _)
\* Uniq with a slip: the object of every entry is listed, seen before or not
UniqKeepsAll(entries, objects) ==
    IF entries = <<>> THEN objects
    ELSE UniqKeepsAll(Tail(entries), Append(objects, Head(entries).text_object))

RECURSIVE Uniq(_, _)
Uniq(entries, objects) ==
    IF entries = <<>> THEN objects
    ELSE LET obj == Head(entries).text_object
         IN  Uniq(Tail(entries),
                  IF obj \in Range(objects) THEN objects ELSE Append(objects, obj))

\* objects_from_txt_map with a slip: one entry too many is read
objects_from_txt_map_one_more(i_start, i_end, txt_map) ==
    Uniq(Slice(txt_map, i_start, i_end + 2), <<>>)

\* unique text objects in order of appearance in txt_map[i_start : i_end+1]
objects_from_txt_map(i_start, i_end, txt_map) ==
    Uniq(Slice(txt_map, i_start, i_end + 1), <<>>)

\* the characters of txt_map[i_start : i_end+1]
text_from_txt_map(i_start, i_end, txt_map) ==
    LET part == Slice(txt_map, i_start, i_end + 1)
    IN  [i \in 1..Len(part) |-> part[i].char]

clamp_max(n, n_max) == IF n > n_max THEN n_max ELSE n

\* TRUE when check_txt_map_bounds raises
BadBounds(i_start, i_end, txt_map) ==
    \/ i_start < 0
    \/ i_start >= Len(txt_map)
    \/ i_end < 0
    \/ i_end >= Len(txt_map)
    \/ i_end < i_start

(***************************************************************************)
(* The pattern engine.  A compiled pattern is an alternation of literal    *)
(* strings, tried in order at each position (leftmost, first alternative   *)
(* first), or a starred character c* (star = TRUE, alts = <<c>>), which    *)
(* matches the longest run of c and so also the empty string.              *)
(***************************************************************************)
Literal(s) == [alts |-> <<s>>, star |-> FALSE]

Alternation(ss) == [alts |-> ss, star |-> FALSE]

Star(c) == [alts |-> <<<<c>>>>, star |-> TRUE]

\* a pattern argument: a raw str or a compiled pattern
Str(s) == [type |-> "str", value |-> s]

Sre(p) == [type |-> "SRE_Pattern", value |-> p]

RECURSIVE make_patterns(_)
\* a list of str / compiled patterns -> list of compiled patterns;
\* a raw string is escaped, so it is matched literally
make_patterns(patterns) ==
    IF patterns = <<>> THEN <<>>
    ELSE LET p == Head(patterns)
         IN  <<IF p.type = "str" THEN Literal(p.value) ELSE p.value>>
                 \o make_patterns(Tail(patterns))

RECURSIVE RunLen(_, _, _)
\* length of the run of character c in txt from index pos
RunLen(c, txt, pos) ==
    IF pos < Len(txt) /\ txt[pos + 1] = c THEN 1 + RunLen(c, txt, pos + 1) ELSE 0

RECURSIVE FirstAlt(_, _, _, _)
\* length of the first alternative from index k on that occurs at pos, else -1
FirstAlt(alts, k, txt, pos) ==
    IF k > Len(alts) THEN -1
    ELSE IF pos + Len(alts[k]) <= Len(txt)
            /\ Slice(txt, pos, pos + Len(alts[k])) = alts[k]
         THEN Len(alts[k])
         ELSE FirstAlt(alts, k + 1, txt, pos)

\* length of the match of pattern at pos, -1 when there is none
MatchLenAt(pattern, txt, pos) ==
    IF pattern.star THEN RunLen(pattern.alts[1][1], txt, pos)
    ELSE FirstAlt(pattern.alts, 1, txt, pos)

RECURSIVE ScanFrom(_, _, _)
ScanFrom(pattern, txt, pos) ==
    IF pos > Len(txt) THEN <<>>
    ELSE LET k == MatchLenAt(pattern, txt, pos)
         IN  IF k < 0 THEN ScanFrom(pattern, txt, pos + 1)
             ELSE <<[start |-> pos, end |-> pos + k,
                     group |-> Slice(txt, pos, pos + k), re |-> pattern]>>
                      \o ScanFrom(pattern, txt, IF k = 0 THEN pos + 1 ELSE pos + k)

\* pattern.finditer(txt): the non-overlapping matches, left to right; each
\* is a match object with start(), end(), group() and the pattern re
finditer(pattern, txt) == ScanFrom(pattern, txt, 0)

(***************************************************************************)
(* Hyperlinks.  rids[obj] is the list of rId values that the w:hyperlink   *)
(* grandparent of obj carries (<<>> when the grandparent is no hyperlink   *)
(* or carries none); rels is the set of ids of rels_dict.  A relationship  *)
(* object is named by its id.  Results are [raised, val].                  *)
(***************************************************************************)
Ok(v) == [raised |-> FALSE, val |-> v]

Raise == [raised |-> TRUE, val |-> <<>>]

RECURSIVE HyperlinkIds(_, _, _)
\* first loop of hyperlinks_for_text_objects
HyperlinkIds(text_objects, rids, hyperlink_ids) ==
    IF text_objects = <<>> THEN Ok(hyperlink_ids)
    ELSE LET rIds == rids[Head(text_objects)]
         IN  IF Len(rIds) = 1
             THEN HyperlinkIds(Tail(text_objects), rids,
                               IF rIds[1] \in Range(hyperlink_ids) THEN hyperlink_ids
                               ELSE Append(hyperlink_ids, rIds[1]))
             ELSE IF Len(rIds) > 1 THEN Raise
             ELSE HyperlinkIds(Tail(text_objects), rids, hyperlink_ids)

hyperlinks_for_text_objects(text_objects, rids, rels) ==
    LET ids == HyperlinkIds(text_objects, rids, <<>>)
    IN  IF ids.raised THEN Raise
        ELSE IF \E i \in 1..Len(ids.val) : ids.val[i] \notin rels THEN Raise
        ELSE ids

(***************************************************************************)
(* Match modifiers are functions of the caller: (i_start, i_end, txt_map,  *)
(* hyperlinks) -> (new_i_start, new_i_end).  Three of them are modelled.   *)
(***************************************************************************)
Modifiers == {"keep", "drop_last", "take_next"}

modifier(m, i_start, i_end, txt_map, hyperlink_objects) ==
    CASE m = "keep"      -> <<i_start, i_end>>
      [] m = "drop_last" -> <<i_start, i_end - 1>>
      [] m = "take_next" -> <<i_start, i_end + 1>>

peek_matches == TRUE

RECURSIVE ApplyModifiersKeepsText(_, _, _, _, _)
\* ApplyModifiers with a slip: match_text is not taken again from the new span
ApplyModifiersKeepsText(match_modifiers, st, txt_map, rids, rels) ==
    IF match_modifiers = <<>> THEN Ok(st)
    ELSE LET new == modifier(Head(match_modifiers), st.i_start, st.i_end,
                             txt_map, st.hyperlink_objects)
         IN  IF new[1] # st.i_start \/ new[2] # st.i_end
             THEN IF BadBounds(new[1], new[2], txt_map) THEN Raise
                  ELSE LET objs == objects_from_txt_map(new[1], new[2], txt_map)
                           hls  == hyperlinks_for_text_objects(objs, rids, rels)
                       IN  IF hls.raised THEN Raise
                           ELSE ApplyModifiersKeepsText(Tail(match_modifiers),
                                    [i_start |-> new[1], i_end |-> new[2],
                                     match_objects |-> objs,
                                     hyperlink_objects |-> hls.val,
                                     match_text |-> st.match_text],
                                    txt_map, rids, rels)
             ELSE ApplyModifiersKeepsText(Tail(match_modifiers), st, txt_map, rids,
                                          rels)

RECURSIVE ApplyModifiers(_, _, _, _, _)
\* the loop "for modifier in match_modifiers" of _get_match_info; st holds
\* i_start, i_end, match_objects, hyperlink_objects and match_text
ApplyModifiers(match_modifiers, st, txt_map, rids, rels) ==
    IF match_modifiers = <<>> THEN Ok(st)
    ELSE LET new == modifier(Head(match_modifiers), st.i_start, st.i_end,
                             txt_map, st.hyperlink_objects)
         IN  IF new[1] # st.i_start \/ new[2] # st.i_end
             THEN IF BadBounds(new[1], new[2], txt_map) THEN Raise
                  ELSE LET objs == objects_from_txt_map(new[1], new[2], txt_map)
                           hls  == hyperlinks_for_text_objects(objs, rids, rels)
                       IN  IF hls.raised THEN Raise
                           ELSE ApplyModifiers(Tail(match_modifiers),
                                    [i_start |-> new[1], i_end |-> new[2],
                                     match_objects |-> objs,
                                     hyperlink_objects |-> hls.val,
                                     match_text |->
                                         text_from_txt_map(new[1], new[2], txt_map)],
                                    txt_map, rids, rels)
             ELSE ApplyModifiers(Tail(match_modifiers), st, txt_map, rids, rels)

\* the text before and after the match that 'context' shows
Context(i_start, i_end, match_text, txt_map) ==
    LET max_before  == clamp_max(i_start, peek_max_chars)
        max_after   == clamp_max(Len(txt_map) - i_end, peek_max_chars)
        text_before == IF i_start > 0
                       THEN text_from_txt_map(i_start - max_before, i_start - 1, txt_map)
                       ELSE <<>>
        text_after  == IF Len(txt_map) > i_end
                       THEN text_from_txt_map(i_end + 1, i_end + max_after, txt_map)
                       ELSE <<>>
    IN  text_before \o match_text \o text_after

\* _get_match_info: the dict of one match, or an exception
get_match_info(re_match, txt_map, match_modifiers, rids, rels) ==
    LET i_start == re_match.start
        i_end   == re_match.end - 1
    IN  IF Len(txt_map) = 0 THEN Raise
        ELSE IF BadBounds(i_start, i_end, txt_map) THEN Raise
        ELSE LET match_text    == text_from_txt_map(i_start, i_end, txt_map)
                 match_objects == objects_from_txt_map(i_start, i_end, txt_map)
                 hls == hyperlinks_for_text_objects(match_objects, rids, rels)
             IN  IF match_text # re_match.group THEN Raise
                 ELSE IF hls.raised THEN Raise
                 ELSE LET r == ApplyModifiers(match_modifiers,
                                   [i_start |-> i_start, i_end |-> i_end,
                                    match_objects |-> match_objects,
                                    hyperlink_objects |-> hls.val,
                                    match_text |-> match_text],
                                   txt_map, rids, rels)
                      IN  IF r.raised THEN Raise
                          ELSE Ok([text       |-> r.val.match_text,
                                   objects    |-> r.val.match_objects,
                                   startpos   |-> txt_map[r.val.i_start + 1].charpos,
                                   endpos     |-> txt_map[r.val.i_end + 1].charpos,
                                   hyperlinks |-> r.val.hyperlink_objects,
                                   re_object  |-> re_match,
                                   context    |->
                                       IF peek_matches
                                       THEN Context(r.val.i_start, r.val.i_end,
                                                    r.val.match_text, txt_map)
                                       ELSE <<>>])

RECURSIVE MatchLoop(_, _, _, _, _, _)
\* the loop "for match in pattern.finditer(txt)" of find_matches
MatchLoop(found, txt_map, match_modifiers, rids, rels, matches_dict) ==
    IF found = <<>> THEN Ok(matches_dict)
    ELSE LET match == Head(found)
         IN  IF match.start >= Len(txt_map)
             THEN MatchLoop(Tail(found), txt_map, match_modifiers, rids, rels,
                            matches_dict)
             ELSE LET match_info == get_match_info(match, txt_map, match_modifiers,
                                                   rids, rels)
                  IN  IF match_info.raised THEN Raise
                      ELSE MatchLoop(Tail(found), txt_map, match_modifiers, rids,
                                     rels, Append(matches_dict, match_info.val))

RECURSIVE PatternLoop(_, _, _, _, _, _, _)
\* the loop "for pattern in patterns" of find_matches
PatternLoop(patterns, txt, txt_map, match_modifiers, rids, rels, matches_dict) ==
    IF patterns = <<>> THEN Ok(matches_dict)
    ELSE LET r == MatchLoop(finditer(Head(patterns), txt), txt_map,
                            match_modifiers, rids, rels, matches_dict)
         IN  IF r.raised THEN Raise
             ELSE PatternLoop(Tail(patterns), txt, txt_map, match_modifiers,
                              rids, rels, r.val)

find_matches(text_objects, patterns, match_modifiers, t, rids, rels) ==
    LET txt_map == BuildTxtMap(text_objects, t)
    IN  IF Len(txt_map) = 0 THEN Ok(<<>>)
        ELSE PatternLoop(patterns, objects_to_text(text_objects, t), txt_map,
                         match_modifiers, rids, rels, <<>>)

\* ParagraphLoop with a slip: the text objects of all paragraphs are searched
\* as one list
ParagraphLoopAllAtOnce(pars, patterns, match_modifiers, t, rids, rels, matches) ==
    find_matches(Concat(pars), patterns, match_modifiers, t, rids, rels)

RECURSIVE ParagraphLoop(_, _, _, _, _, _, _)
ParagraphLoop(pars, patterns, match_modifiers, t, rids, rels, matches) ==
    IF pars = <<>> THEN Ok(matches)
    ELSE LET r == find_matches(Head(pars), patterns, match_modifiers, t, rids, rels)
         IN  IF r.raised THEN Raise
             ELSE ParagraphLoop(Tail(pars), patterns, match_modifiers, t, rids,
                                rels, matches \o r.val)

\* search_paragraphs: the matches of every paragraph, paragraph by paragraph
search_paragraphs(pars, patterns, match_modifiers, t, rids, rels) ==
    ParagraphLoop(pars, make_patterns(patterns), match_modifiers, t, rids, rels, <<>>)

(***************************************************************************)
(* Replacement functions: (text_match, hyperlinks, text_objects) ->        *)
(* (replacement_text, new_hl_target), either part None.  "const" is the    *)
(* lambda that to_replacement_func makes from a str and any caller's       *)
(* function that answers the same for every match; "swapcase" is           *)
(* replace_func_swapcase.                                                  *)
(***************************************************************************)
Const(r, h) == [kind |-> "const", text |-> r, hl |-> h]

Swapcase == [kind |-> "swapcase", text |-> None, hl |-> None]

CasePairs == {<<"a", "A">>, <<"b", "B">>, <<"u", "U">>, <<"v", "V">>}

swapchar(c) ==
    IF \E p \in CasePairs : p[1] = c THEN (CHOOSE p \in CasePairs : p[1] = c)[2]
    ELSE IF \E p \in CasePairs : p[2] = c THEN (CHOOSE p \in CasePairs : p[2] = c)[1]
    ELSE c

swapcase(s) == [i \in 1..Len(s) |-> swapchar(s[i])]

replace_func_swapcase(text_match, hyperlinks, text_objects) ==
    <<swapcase(text_match),
      IF hyperlinks # <<>> THEN swapcase(hyperlinks[1]) ELSE None>>

replace_func(f, text_match, hyperlinks, text_objects) ==
    IF f.kind = "swapcase"
    THEN replace_func_swapcase(text_match, hyperlinks, text_objects)
    ELSE <<f.text, f.hl>>

\* to_replacement_func of a str
to_replacement_func(replacer) ==
    IF replacer.type = "str" THEN Const(replacer.value, None) ELSE replacer.value

\* insert_str with a slip: the string is appended
insert_str_appends(string, str_to_insert, index) == string \o str_to_insert

insert_str(string, str_to_insert, index) ==
    Slice(string, 0, index) \o str_to_insert \o SliceFrom(string, index)

(***************************************************************************)
(* replace_match.  The loop over the objects of the match takes the match  *)
(* out of the texts and remembers where the replacement goes; st holds the *)
(* texts t, obj_with_replacement and replace_index.                        *)
(***************************************************************************)
\* CutObject with a slip: an object that is first and last gets the text after
\* the match only, the text before the match is overwritten
CutObjectOverwritesPrefix(obj, first_obj, last_obj, startpos, endpos, st) ==
    LET original_obj_text == st.t[obj]
        t1 == IF obj = first_obj
              THEN [st.t EXCEPT ![obj] = Slice(original_obj_text, 0, startpos)]
              ELSE st.t
    IN  IF obj = last_obj
        THEN [t |-> [t1 EXCEPT ![obj] = SliceFrom(original_obj_text, endpos + 1)],
              obj_with_replacement |-> obj,
              replace_index |-> 0]
        ELSE IF obj # first_obj /\ obj # last_obj
             THEN [st EXCEPT !.t = [t1 EXCEPT ![obj] = <<>>]]
             ELSE [st EXCEPT !.t = t1]

CutObject(obj, first_obj, last_obj, startpos, endpos, st) ==
    LET original_obj_text == st.t[obj]
        t1 == IF obj = first_obj
              THEN [st.t EXCEPT ![obj] = Slice(original_obj_text, 0, startpos)]
              ELSE st.t
    IN  IF obj = last_obj
        THEN IF obj = first_obj
             THEN [t |-> [t1 EXCEPT ![obj] =
                              @ \o SliceFrom(original_obj_text, endpos + 1)],
                   obj_with_replacement |-> obj,
                   replace_index |-> Len(t1[obj])]
             ELSE [t |-> [t1 EXCEPT ![obj] =
                              SliceFrom(original_obj_text, endpos + 1)],
                   obj_with_replacement |-> obj,
                   replace_index |-> 0]
        ELSE IF obj # first_obj /\ obj # last_obj
             THEN [st EXCEPT !.t = [t1 EXCEPT ![obj] = <<>>]]
             ELSE [st EXCEPT !.t = t1]

\* SetTargets with a slip: the first hyperlink of the match alone is changed
SetFirstTarget(hyperlinks, new_hl_target, targets) ==
    [targets EXCEPT ![hyperlinks[1]] = new_hl_target]

\* the loop "for hl in match['hyperlinks']": every hyperlink of the match gets
\* the new target
SetTargets(hyperlinks, new_hl_target, targets) ==
    [r \in DOMAIN targets |->
        IF r \in Range(hyperlinks) THEN new_hl_target ELSE targets[r]]

RECURSIVE CutLoopSkipsMiddle(_, _, _, _, _, _)
\* CutLoop with a slip: the objects between the first and the last are left
\* as they are
CutLoopSkipsMiddle(objs, first_obj, last_obj, startpos, endpos, st) ==
    IF objs = <<>> THEN st
    ELSE CutLoopSkipsMiddle(Tail(objs), first_obj, last_obj, startpos, endpos,
             IF Head(objs) \in {first_obj, last_obj}
             THEN CutObject(Head(objs), first_obj, last_obj, startpos, endpos, st)
             ELSE st)

RECURSIVE CutLoopOverRange(_, _, _, _, _, _)
\* CutLoop with a slip: every text object of the document from the first to
\* the last of the match is cut, in the match or not
CutLoopOverRange(objs, first_obj, last_obj, startpos, endpos, st) ==
    IF objs = <<>> THEN st
    ELSE CutLoopOverRange(IF Head(objs) < last_obj THEN <<Head(objs) + 1>> ELSE <<>>,
                          first_obj, last_obj, startpos, endpos,
                          CutObject(Head(objs), first_obj, last_obj, startpos,
                                    endpos, st))

RECURSIVE CutLoop(_, _, _, _, _, _)
CutLoop(objs, first_obj, last_obj, startpos, endpos, st) ==
    IF objs = <<>> THEN st
    ELSE CutLoop(Tail(objs), first_obj, last_obj, startpos, endpos,
                 CutObject(Head(objs), first_obj, last_obj, startpos, endpos, st))

\* the result of replace_match: the texts, the targets and the value returned
replace_match(match, f, t, target) ==
    LET match_objects == match.objects
        first_obj == match_objects[1]
        last_obj  == match_objects[Len(match_objects)]
        cut == CutLoop(match_objects, first_obj, last_obj, match.startpos,
                       match.endpos,
                       [t |-> t, obj_with_replacement |-> 0, replace_index |-> 0])
        match_hls == [i \in 1..Len(match.hyperlinks) |-> target[match.hyperlinks[i]]]
        answer == replace_func(f, match.text, match_hls, match_objects)
        replacement_text == answer[1]
        new_hl_target    == answer[2]
        t2 == IF replacement_text # None
              THEN [cut.t EXCEPT ![cut.obj_with_replacement] =
                        insert_str(@, replacement_text, cut.replace_index)]
              ELSE cut.t
        sethl == new_hl_target # None /\ Len(match_hls) > 0
        target2 == IF sethl THEN SetTargets(match.hyperlinks, new_hl_target, target)
                   ELSE target
    IN  [t |-> t2, target |-> target2,
         modified |-> (replacement_text # None) \/ sethl]

RECURSIVE ReplaceLoopStopsAtZero(_, _, _, _, _, _)
\* ReplaceLoop with a slip: the loop ends when n_replacements has reached or
\* passed max_replacements, so with max_replacements = 0 after one match
ReplaceLoopStopsAtZero(ms, f, max_replacements, st, k, n) ==
    IF k > n THEN st
    ELSE LET r  == replace_match(ms[k], f, st.t, st.target)
             s2 == [t |-> r.t, target |-> r.target,
                    n_replacements |-> st.n_replacements + 1]
         IN  IF s2.n_replacements >= max_replacements THEN s2
             ELSE ReplaceLoopStopsAtZero(ms, f, max_replacements, s2, k + 1, n)

RECURSIVE ReplaceLoop(_, _, _, _, _, _)
\* the loop of replace_all; st holds the texts, the targets, n_replacements
ReplaceLoop(ms, f, max_replacements, st, k, n) ==
    IF k > n THEN st
    ELSE LET r  == replace_match(ms[k], f, st.t, st.target)
             s2 == [t |-> r.t, target |-> r.target,
                    n_replacements |-> st.n_replacements + 1]
         IN  IF s2.n_replacements = max_replacements THEN s2
             ELSE ReplaceLoop(ms, f, max_replacements, s2, k + 1, n)

\* replace_all with a slip: max_replacements is looked at after the loop
replace_all_checks_after(ms, f, max_replacements, t, target) ==
    LET st == ReplaceLoop(ms, f, max_replacements,
                          [t |-> t, target |-> target, n_replacements |-> 0],
                          1, Len(ms))
    IN  [raised |-> max_replacements < 0, t |-> st.t, target |-> st.target,
         n_replacements |-> st.n_replacements]

\* replace_all: raised (ValueError) or the state after the loop
replace_all(ms, f, max_replacements, t, target) ==
    IF max_replacements < 0
    THEN [raised |-> TRUE, t |-> t, target |-> target, n_replacements |-> 0]
    ELSE LET st == ReplaceLoop(ms, f, max_replacements,
                               [t |-> t, target |-> target, n_replacements |-> 0],
                               1, Len(ms))
         IN  [raised |-> FALSE, t |-> st.t, target |-> st.target,
              n_replacements |-> st.n_replacements]

(***************************************************************************)
(* The element tree of word/document.xml, reduced to its w:p and w:t       *)
(* elements: the nodes in document order, each with its tag and the index  *)
(* of its nearest w:p ancestor (0 when it has none).  A w:t element lies   *)
(* in a w:p; a w:p may lie in another w:p (a text box).  The text object   *)
(* of a w:t node is named by Id, its rank among the w:t nodes.             *)
(***************************************************************************)
MaxNodes == 5   \* w:p and w:t elements of a generated element tree

Wp(parent) == [tag |-> "p", parent |-> parent]

Wt(parent) == [tag |-> "t", parent |-> parent]

RECURSIVE Ancestors(_, _)
\* the w:p ancestors of node i
Ancestors(doc, i) ==
    IF i = 0 \/ doc[i].parent = 0 THEN {}
    ELSE {doc[i].parent} \cup Ancestors(doc, doc[i].parent)

\* the elements that are still open after node i: the w:p elements the next
\* node in document order can lie in (0: in none)
Open(doc, i) ==
    IF i = 0 THEN {0}
    ELSE {0} \cup Ancestors(doc, i) \cup (IF doc[i].tag = "p" THEN {i} ELSE {})

RECURSIVE Documents(_)
\* the element trees of n nodes
Documents(n) ==
    IF n = 0 THEN {<<>>}
    ELSE UNION {{Append(doc, Wp(k)) : k \in Open(doc, n - 1)}
                    \cup {Append(doc, Wt(k)) : k \in Open(doc, n - 1) \ {0}} :
                doc \in Documents(n - 1)}

RECURSIVE NodesFrom(_, _, _, _)
NodesFrom(doc, node, tag, j) ==
    IF j > Len(doc) THEN <<>>
    ELSE (IF doc[j].tag = tag /\ (node = 0 \/ node \in Ancestors(doc, j))
          THEN <<j>> ELSE <<>>) \o NodesFrom(doc, node, tag, j + 1)

\* node.xpath('.//w:<tag>'): the descendants of node with that tag, in document
\* order (node 0: the root of the document)
xpath(doc, node, tag) == NodesFrom(doc, node, tag, 1)

nearest_paragraph_parent(doc, obj) == doc[obj].parent

\* the text object of w:t node obj
Id(doc, obj) == Cardinality({j \in 1..obj : doc[j].tag = "t"})

RECURSIVE Remove(_, _)
\* list.remove(x): the list without the first x
Remove(list, x) ==
    IF list = <<>> THEN <<>>
    ELSE IF Head(list) = x THEN Tail(list)
    ELSE <<Head(list)>> \o Remove(Tail(list), x)

RECURSIVE TextObjectLoop(_, _, _, _, _)
\* the loop "for obj in text_objects" of text_objects_in_paragraph, which
\* removes from the list it runs over: i is the index the loop is at, and
\* after a removal the object that moved to index i is passed over
TextObjectLoop(doc, paragraph_object, t, text_objects, i) ==
    IF i >= Len(text_objects) THEN text_objects
    ELSE LET obj == text_objects[i + 1]
         IN  TextObjectLoop(doc, paragraph_object, t,
                 IF nearest_paragraph_parent(doc, obj) # paragraph_object
                 THEN Remove(text_objects, obj)
                 ELSE IF t[Id(doc, obj)] = None THEN Remove(text_objects, obj)
                 ELSE text_objects,
                 i + 1)

text_objects_in_paragraph(doc, paragraph_object, t) ==
    TextObjectLoop(doc, paragraph_object, t, xpath(doc, paragraph_object, "t"), 0)

RECURSIVE TextsInSubpars(_, _)
\* n_texts_in_subpars: the w:t descendants of every sub-paragraph, added up
TextsInSubpars(doc, subpars) ==
    IF subpars = <<>> THEN 0
    ELSE Len(xpath(doc, Head(subpars), "t")) + TextsInSubpars(doc, Tail(subpars))

RECURSIVE SubparLoop(_, _, _, _)
\* the loop "for par in paragraphs" of _read_paragraphs, which removes from
\* the list it runs over, and "paragraphs += to_add" after it
SubparLoop(doc, paragraphs, to_add, i) ==
    IF i >= Len(paragraphs) THEN paragraphs \o to_add
    ELSE LET par     == paragraphs[i + 1]
             subpars == xpath(doc, par, "p")
         IN  IF Len(subpars) > 0
             THEN SubparLoop(doc,
                      IF TextsInSubpars(doc, subpars) = Len(xpath(doc, par, "t"))
                      THEN Remove(paragraphs, par) ELSE paragraphs,
                      to_add \o subpars, i + 1)
             ELSE SubparLoop(doc, paragraphs, to_add, i + 1)

RECURSIVE MapLoop(_, _, _, _)
\* the loop that fills the OrderedDict: a key that is set again keeps its place
MapLoop(doc, paragraphs, t, map) ==
    IF paragraphs = <<>> THEN map
    ELSE LET paragraph == Head(paragraphs)
             entry == [paragraph    |-> paragraph,
                       text_objects |-> text_objects_in_paragraph(doc, paragraph, t)]
         IN  MapLoop(doc, Tail(paragraphs), t,
                     IF \E k \in 1..Len(map) : map[k].paragraph = paragraph
                     THEN [k \in 1..Len(map) |->
                              IF map[k].paragraph = paragraph THEN entry ELSE map[k]]
                     ELSE Append(map, entry))

\* _read_paragraphs: the paragraph_map, in order, as (paragraph, text_objects)
read_paragraphs(doc, t) ==
    MapLoop(doc, SubparLoop(doc, xpath(doc, 0, "p"), <<>>, 0), t, <<>>)

\* the lists of text objects of a paragraph_map, in order
Values(doc, map) ==
    [k \in 1..Len(map) |->
        [i \in 1..Len(map[k].text_objects) |-> Id(doc, map[k].text_objects[i])]]

RECURSIVE FlatDocument(_, _)
\* the element tree of paragraphs that lie in no other paragraph: layout lists
\* the text objects of every paragraph
FlatDocument(layout, doc) ==
    IF layout = <<>> THEN doc
    ELSE FlatDocument(Tail(layout),
                      Append(doc, Wp(0))
                          \o [i \in 1..Len(Head(layout)) |-> Wt(Len(doc) + 1)])

(***************************************************************************)
(* The state: a loaded document and what its caller holds.                 *)
(***************************************************************************)
VARIABLES
    docroot,        \* the element tree of word/document.xml
    text,           \* obj.text of every w:t object (a string or None)
    paragraph_map,  \* the paragraphs in order, each the list of its text objects
    rids,           \* the rIds of the hyperlink around every w:t object
    target,         \* rels_dict: the Target of every relationship
    matches,        \* the list of matches the caller got from the last search
    searched_text,  \* the texts as they were when matches was computed
    last,           \* the last call: its arguments, the state before it, its result
    calls,          \* number of calls made
    replacing       \* number of replacing calls made

vars == <<docroot, text, paragraph_map, rids, target, matches, searched_text, last, calls,
          replacing>>

Alphabet == {"a", "b"}

Strings(n) == UNION {[1..k -> Alphabet] : k \in 0..n}

Texts == {None} \cup Strings(MaxLen)

\* the text objects 1..n as one paragraph, or split in two paragraphs
Paragraphs(n) ==
    {<<[i \in 1..n |-> i]>>}
        \cup {<<[i \in 1..k |-> i], [i \in 1..(n - k) |-> k + i]>> : k \in 1..(n - 1)}

HyperlinkRefs == {<<>>, <<1>>, <<2>>}

Targets == [r \in {1, 2} |-> IF r = 1 THEN <<"u">> ELSE <<"v">>]

InitCaller ==
    /\ target = Targets
    /\ matches = <<>>
    /\ searched_text = text
    /\ last = [op |-> "load_document"]
    /\ calls = 0
    /\ replacing = 0

ShortTexts == {None, <<>>, <<"a">>, <<"a", "b">>}

\* documents of up to MaxFrags text objects: any texts without hyperlinks,
\* or any hyperlinks around text objects that read "a", "b", "a", ...; and
\* one paragraph of MaxFrags + 1 text objects with texts of ShortTexts; and one
\* paragraph of MaxFrags + 2 text objects that read "ab" or have no text.  The
\* paragraph_map is the one that _read_paragraphs builds.
Init ==
    /\ \/ \E n \in 1..MaxFrags :
              /\ \E layout \in Paragraphs(n) : docroot = FlatDocument(layout, <<>>)
              /\ \/ /\ text \in [1..n -> Texts]
                    /\ rids = [i \in 1..n |-> <<>>]
                 \/ /\ text = [i \in 1..n |-> IF i % 2 = 1 THEN <<"a">> ELSE <<"b">>]
                    /\ rids \in [1..n -> HyperlinkRefs]
       \/ /\ docroot = FlatDocument(<<[i \in 1..(MaxFrags + 1) |-> i]>>, <<>>)
          /\ text \in [1..(MaxFrags + 1) -> ShortTexts]
          /\ rids = [i \in 1..(MaxFrags + 1) |-> <<>>]
       \/ /\ docroot = FlatDocument(<<[i \in 1..(MaxFrags + 2) |-> i]>>, <<>>)
          /\ text \in [1..(MaxFrags + 2) -> {None, <<"a", "b">>}]
          /\ rids = [i \in 1..(MaxFrags + 2) |-> <<>>]
    /\ paragraph_map = Values(docroot, read_paragraphs(docroot, text))
    /\ InitCaller

(***************************************************************************)
(* The arguments the calls are tried with.                                 *)
(***************************************************************************)
PatternArgs ==
    {<<Str(s)>> : s \in {<<>>, <<"a">>, <<"a", "b">>}}
        \cup {<<Sre(Alternation(<<<<"a">>, <<"b", "b">>>>))>>, <<Sre(Star("a"))>>,
              <<Str(<<"b">>), Str(<<"a">>)>>, <<Str(<<"a", "b">>), Str(<<"b">>)>>}

ModifierArgs ==
    {<<>>, <<"keep">>, <<"drop_last">>, <<"take_next">>}

ReplaceFuncs ==
    {Const(None, None), Const(<<>>, None), Const(<<"a">>, None),
     Const(<<"a", "b">>, <<"u">>), Const(None, <<"u">>), Swapcase}

Replacers ==
    {Str(<<>>), Str(<<"a", "b">>), [type |-> "function", value |-> Swapcase]}

MaxReplacementsArgs == -1..2

(***************************************************************************)
(* The calls.                                                              *)
(***************************************************************************)
RECURSIVE EngineMatches(_, _, _)
\* what pattern.finditer reported in a search: every match object, with the
\* paragraph it was found in (none for a paragraph without characters)
EngineMatches(p, patterns, t) ==
    IF p > Len(paragraph_map) THEN <<>>
    ELSE LET txt == objects_to_text(paragraph_map[p], t)
             found == IF Len(BuildTxtMap(paragraph_map[p], t)) = 0 THEN <<>>
                      ELSE Concat([k \in 1..Len(patterns) |->
                                      finditer(patterns[k], txt)])
         IN  [k \in 1..Len(found) |-> [par |-> p, len_txt_map |-> Len(txt),
                                       match |-> found[k]]]
                 \o EngineMatches(p + 1, patterns, t)

\* SearchParagraphs with a slip: the search reads the texts as they were at the
\* search before, as if the character map were kept between calls
SearchParagraphsCached(patterns, match_modifiers) ==
    /\ calls < MaxCalls
    /\ \E r \in {search_paragraphs(paragraph_map, patterns, match_modifiers,
                                  searched_text, rids, DOMAIN target)} :
           /\ matches' = IF r.raised THEN matches ELSE r.val
           /\ searched_text' = IF r.raised THEN searched_text ELSE text
           /\ last' = [op |-> "search_paragraphs",
                       match_modifiers |-> match_modifiers,
                       engine |-> EngineMatches(1, make_patterns(patterns), text),
                       txt_maps |-> [p \in 1..Len(paragraph_map) |->
                                        BuildTxtMap(paragraph_map[p], text)],
                       raised |-> r.raised,
                       ret |-> r.val]
    /\ calls' = calls + 1
    /\ UNCHANGED <<docroot, text, paragraph_map, rids, target, replacing>>

\* matches = doc.search_paragraphs(patterns, match_modifiers)
SearchParagraphs(patterns, match_modifiers) ==
    /\ calls < MaxCalls
    /\ \E r \in {search_paragraphs(paragraph_map, patterns, match_modifiers,
                                  text, rids, DOMAIN target)} :
           /\ matches' = IF r.raised THEN matches ELSE r.val
           /\ searched_text' = IF r.raised THEN searched_text ELSE text
           /\ last' = [op |-> "search_paragraphs",
                       match_modifiers |-> match_modifiers,
                       engine |-> EngineMatches(1, make_patterns(patterns), text),
                       txt_maps |-> [p \in 1..Len(paragraph_map) |->
                                        BuildTxtMap(paragraph_map[p], text)],
                       raised |-> r.raised,
                       ret |-> r.val]
    /\ calls' = calls + 1
    /\ UNCHANGED <<docroot, text, paragraph_map, rids, target, replacing>>

\* doc.replace_match(matches[i], f), for any match i the caller holds
ReplaceMatch(f) ==
    /\ calls < MaxCalls
    /\ replacing < MaxReplacing
    /\ \E i \in 1..Len(matches) :
       \E r \in {replace_match(matches[i], f, text, target)} :
           /\ text' = r.t
           /\ target' = r.target
           /\ last' = [op |-> "replace_match", match |-> matches[i], f |-> f,
                       pre_text |-> text, pre_target |-> target,
                       raised |-> FALSE, ret |-> r.modified]
    /\ calls' = calls + 1
    /\ replacing' = replacing + 1
    /\ UNCHANGED <<docroot, paragraph_map, rids, matches, searched_text>>

\* doc.replace_all(matches, f, max_replacements)
ReplaceAll(f, max_replacements) ==
    /\ calls < MaxCalls
    /\ replacing < MaxReplacing
    /\ \E r \in {replace_all(matches, f, max_replacements, text, target)} :
           /\ text' = r.t
           /\ target' = r.target
           /\ last' = [op |-> "replace_all", matches |-> matches, f |-> f,
                       max_replacements |-> max_replacements,
                       pre_text |-> text, pre_target |-> target,
                       raised |-> r.raised,
                       n_replacements |-> r.n_replacements,
                       ret |-> r.n_replacements]
    /\ calls' = calls + 1
    /\ replacing' = replacing + 1
    /\ UNCHANGED <<docroot, paragraph_map, rids, matches, searched_text>>

\* SearchReplace with a slip: the matches the caller holds from an earlier
\* search are replaced, not the matches just found
SearchReplaceHeldMatches(patterns, replacement, max_replacements) ==
    /\ calls < MaxCalls
    /\ replacing < MaxReplacing
    /\ \E made \in {make_patterns(patterns)}, f \in {to_replacement_func(replacement)} :
       \E found \in {search_paragraphs(paragraph_map,
                                       [i \in 1..Len(made) |-> Sre(made[i])], <<>>,
                                       text, rids, DOMAIN target)} :
       \E r \in {IF found.raised
                 THEN [raised |-> TRUE, t |-> text, target |-> target,
                       n_replacements |-> 0]
                 ELSE replace_all(matches, f, max_replacements, text, target)} :
           /\ text' = r.t
           /\ target' = r.target
           /\ matches' = IF r.raised THEN matches ELSE found.val
           /\ searched_text' = IF r.raised THEN searched_text ELSE text
           /\ last' = [op |-> "search_replace", f |-> f,
                       max_replacements |-> max_replacements,
                       engine |-> EngineMatches(1, made, text),
                       matches |-> found.val,
                       pre_text |-> text, pre_target |-> target,
                       raised |-> r.raised,
                       n_replacements |-> r.n_replacements,
                       ret |-> found.val]
    /\ calls' = calls + 1
    /\ replacing' = replacing + 1
    /\ UNCHANGED <<docroot, paragraph_map, rids>>

\* matches = doc.search_replace(patterns, replacement, max_replacements)
SearchReplace(patterns, replacement, max_replacements) ==
    /\ calls < MaxCalls
    /\ replacing < MaxReplacing
    /\ \E made \in {make_patterns(patterns)}, f \in {to_replacement_func(replacement)} :
       \E found \in {search_paragraphs(paragraph_map,
                                       [i \in 1..Len(made) |-> Sre(made[i])], <<>>,
                                       text, rids, DOMAIN target)} :
       \E r \in {IF found.raised
                 THEN [raised |-> TRUE, t |-> text, target |-> target,
                       n_replacements |-> 0]
                 ELSE replace_all(found.val, f, max_replacements, text, target)} :
           /\ text' = r.t
           /\ target' = r.target
           /\ matches' = IF r.raised THEN matches ELSE found.val
           /\ searched_text' = IF r.raised THEN searched_text ELSE text
           /\ last' = [op |-> "search_replace", f |-> f,
                       max_replacements |-> max_replacements,
                       engine |-> EngineMatches(1, made, text),
                       matches |-> found.val,
                       pre_text |-> text, pre_target |-> target,
                       raised |-> r.raised,
                       n_replacements |-> r.n_replacements,
                       ret |-> found.val]
    /\ calls' = calls + 1
    /\ replacing' = replacing + 1
    /\ UNCHANGED <<docroot, paragraph_map, rids>>

Next ==
    \/ \E patterns \in PatternArgs, match_modifiers \in ModifierArgs :
           SearchParagraphs(patterns, match_modifiers)
    \/ \E f \in ReplaceFuncs : ReplaceMatch(f)
    \/ \E f \in ReplaceFuncs, max_replacements \in MaxReplacementsArgs :
           ReplaceAll(f, max_replacements)
    \/ \E patterns \in PatternArgs, replacement \in Replacers,
          max_replacements \in MaxReplacementsArgs :
           SearchReplace(patterns, replacement, max_replacements)

Spec == Init /\ [][Next]_vars
(***************************************************************************)
(* The worked examples: the documents, patterns and replacements of the    *)
(* examples of the documentation and of tests/test.py, under the same      *)
(* calls.                                                                  *)
(***************************************************************************)
Hel == <<"H", "e", "l">>

loWo == <<"l", "o", " ", "W", "o">>

rld == <<"r", "l", "d">>

This == <<"T", "h", "i", "s">>

short == <<"s", "h", "o", "r", "t">>

example == <<"e", "x", "a", "m", "p", "l", "e">>

ultra == <<"u", "l", "t", "r", "a">>

long == <<"l", "o", "n", "g">>

ThisShortExample == This \o <<" ">> \o short \o <<" ">> \o example \o <<".">>

UltraLong == ultra \o <<" ">> \o long

HelloWorldDoc == [i \in 1..3 |-> CASE i = 1 -> Hel [] i = 2 -> loWo [] i = 3 -> rld]

ShortExampleDoc == [i \in 1..1 |-> ThisShortExample]

InitExamples ==
    /\ text \in {HelloWorldDoc, ShortExampleDoc}
    /\ docroot = FlatDocument(<<[i \in 1..Len(text) |-> i]>>, <<>>)
    /\ paragraph_map = Values(docroot, read_paragraphs(docroot, text))
    /\ rids = [i \in DOMAIN text |-> <<>>]
    /\ InitCaller

ExamplePatternArgs ==
    {<<Str(loWo)>>, <<Sre(Alternation(<<short, example>>))>>, <<Str(<<"l">>)>>,
     <<Str(<<"l", "l", "o", " ", "W", "o", "r">>)>>, <<Str(<<"s">>)>>}

ExampleReplaceFuncs ==
    {Const(<<"X">>, None), Const(UltraLong, None), Const(None, None)}

ExampleReplacers == {Str(<<"X">>), Str(UltraLong)}

NextExamples ==
    \/ \E patterns \in ExamplePatternArgs, match_modifiers \in ModifierArgs :
           SearchParagraphs(patterns, match_modifiers)
    \/ \E f \in ExampleReplaceFuncs : ReplaceMatch(f)
    \/ \E f \in ExampleReplaceFuncs, max_replacements \in MaxReplacementsArgs :
           ReplaceAll(f, max_replacements)
    \/ \E patterns \in ExamplePatternArgs, replacement \in ExampleReplacers,
          max_replacements \in MaxReplacementsArgs :
           SearchReplace(patterns, replacement, max_replacements)

SpecExamples == InitExamples /\ [][NextExamples]_vars

(***************************************************************************)
(* Reading the paragraphs of an element tree: load_document after          *)
(* _load_docx and _read_relationships, at its call of _read_paragraphs.    *)
(* The element trees have up to MaxNodes w:p and w:t elements, paragraphs  *)
(* in paragraphs included; a text object reads "a" or has no text.         *)
(***************************************************************************)
InitParagraphs ==
    /\ \E n \in 1..MaxNodes : docroot \in Documents(n)
    /\ text \in [1..Len(xpath(docroot, 0, "t")) -> {None, <<"a">>}]
    /\ rids = [i \in DOMAIN text |-> <<>>]
    /\ paragraph_map = <<>>
    /\ target = Targets
    /\ matches = <<>>
    /\ searched_text = text
    /\ last = [op |-> "_read_relationships"]
    /\ calls = 0
    /\ replacing = 0

\* self._read_paragraphs()
ReadParagraphs ==
    /\ last.op = "_read_relationships"
    /\ \E map \in {read_paragraphs(docroot, text)} :
           /\ paragraph_map' = Values(docroot, map)
           /\ last' = [op |-> "_read_paragraphs", ret |-> map]
    /\ UNCHANGED <<docroot, text, rids, target, matches, searched_text, calls,
                   replacing>>

NextParagraphs == ReadParagraphs

SpecParagraphs == InitParagraphs /\ [][NextParagraphs]_vars

(***************************************************************************)
(* Vocabulary of the properties.                                           *)
(***************************************************************************)
TextLen(x) == IF x = None THEN 0 ELSE Len(x)

\* the paragraph (list of text objects) that holds obj
ParagraphOf(obj) ==
    paragraph_map[CHOOSE p \in 1..Len(paragraph_map) : obj \in Range(paragraph_map[p])]

RECURSIVE OffsetOf(_, _, _)
\* number of characters of the paragraph before the first character of obj
OffsetOf(objs, obj, t) ==
    IF objs = <<>> \/ Head(objs) = obj THEN 0
    ELSE TextLen(t[Head(objs)]) + OffsetOf(Tail(objs), obj, t)

\* first and last index of the match d in the text of its paragraph
SpanStart(d, t) == OffsetOf(ParagraphOf(d.objects[1]), d.objects[1], t) + d.startpos

SpanEnd(d, t) ==
    OffsetOf(ParagraphOf(d.objects[1]), d.objects[Len(d.objects)], t) + d.endpos

\* what the replacement function answered for match d
Answer(d, f, targets) ==
    replace_func(f, d.text, [i \in 1..Len(d.hyperlinks) |-> targets[d.hyperlinks[i]]],
                 d.objects)

\* the last call was replace_match on a match computed from the texts it found
FreshReplaceMatch == last.op = "replace_match" /\ last.pre_text = searched_text

(***************************************************************************)
(* C1.  After replace_match on a match computed from the current texts,    *)
(* with a replacement function that returns a text r, the text of the      *)
(* paragraph is (text before the match) + r + (text after the match),      *)
(* whether the match lies in one text object or in several.                *)
(***************************************************************************)
C1_ReplacementSplicedIntoParagraph ==
    (FreshReplaceMatch /\ Answer(last.match, last.f, last.pre_target)[1] # None) =>
        LET d   == last.match
            par == ParagraphOf(d.objects[1])
            T   == objects_to_text(par, last.pre_text)
        IN  objects_to_text(par, text) =
                Slice(T, 0, SpanStart(d, last.pre_text))
                    \o Answer(d, last.f, last.pre_target)[1]
                    \o SliceFrom(T, SpanEnd(d, last.pre_text) + 1)

\* a match over several text objects, with text before and after it in the
\* paragraph, replaced by a non-empty text
C1_Witness ==
    /\ FreshReplaceMatch
    /\ Answer(last.match, last.f, last.pre_target)[1] \notin {None, <<>>}
    /\ Len(last.match.objects) >= 2
    /\ SpanStart(last.match, last.pre_text) > 0
    /\ SpanEnd(last.match, last.pre_text) + 1 <
           Len(objects_to_text(ParagraphOf(last.match.objects[1]), last.pre_text))

(***************************************************************************)
(* C2.  replace_match with a replacement function that returns             *)
(* (None, None) leaves the text of the paragraph unchanged: the matched    *)
(* text is still there.                                                    *)
(***************************************************************************)
C2_NoReplacementKeepsText ==
    (FreshReplaceMatch /\ Answer(last.match, last.f, last.pre_target) = <<None, None>>) =>
        LET par == ParagraphOf(last.match.objects[1])
        IN  objects_to_text(par, text) = objects_to_text(par, last.pre_text)

(***************************************************************************)
(* C3.  replace_all and search_replace with max_replacements = N > 0       *)
(* replace exactly the first min(N, total) matches, in document order, and *)
(* leave the text of the other matches untouched; with N = 0 they replace  *)
(* every match.  Stated for the matches of one pattern (which the search   *)
(* lists in document order and which do not overlap) and a replacement     *)
(* function that returns a text: every paragraph then reads as before the  *)
(* call with the spans of those first matches replaced.                    *)
(***************************************************************************)
FreshBatch ==
    /\ last.op \in {"replace_all", "search_replace"}
    /\ ~last.raised
    /\ last.op = "replace_all" => last.pre_text = searched_text

\* number of matches the batch is to replace
BatchCount == IF last.max_replacements > 0
              THEN Min(last.max_replacements, Len(last.matches))
              ELSE Len(last.matches)

OnePattern(ms) == \A i, j \in 1..Len(ms) : ms[i].re_object.re = ms[j].re_object.re

RECURSIVE Rebuild(_, _, _, _)
\* T from index pos on, with the spans of the matches ms (in document order)
\* replaced by what f answers for them
Rebuild(T, pos, ms, f) ==
    IF ms = <<>> THEN SliceFrom(T, pos)
    ELSE Slice(T, pos, SpanStart(Head(ms), last.pre_text))
             \o Answer(Head(ms), f, last.pre_target)[1]
             \o Rebuild(T, SpanEnd(Head(ms), last.pre_text) + 1, Tail(ms), f)

\* the matches among the first k of the batch that lie in paragraph par
FirstInParagraph(par, k) ==
    LET In(d) == d.objects[1] \in Range(par)
    IN  SelectSeq(SubSeq(last.matches, 1, k), In)

AnswersText(ms, f) == \A i \in 1..Len(ms) : Answer(ms[i], f, last.pre_target)[1] # None

C3_BoundedReplacementCount ==
    (FreshBatch /\ OnePattern(last.matches) /\ AnswersText(last.matches, last.f)) =>
        /\ last.n_replacements = BatchCount
        /\ \A p \in 1..Len(paragraph_map) :
              objects_to_text(paragraph_map[p], text) =
                  Rebuild(objects_to_text(paragraph_map[p], last.pre_text), 0,
                          FirstInParagraph(paragraph_map[p], BatchCount), last.f)

(***************************************************************************)
(* C4.  The text of every match that a search returns is the text of the   *)
(* paragraph over the span of the match (read from startpos in its first   *)
(* text object to endpos in its last); that is the substring reported by   *)
(* re_object when no modifier changed the span.                            *)
(***************************************************************************)
Searched == last.op = "search_paragraphs" /\ ~last.raised

SpanText(d, t) ==
    Slice(objects_to_text(ParagraphOf(d.objects[1]), t), SpanStart(d, t),
          SpanEnd(d, t) + 1)

SpanOfPattern(d, t) ==
    SpanStart(d, t) = d.re_object.start /\ SpanEnd(d, t) = d.re_object.end - 1

C4_TextIsTextOfSpan ==
    Searched =>
        \A i \in 1..Len(last.ret) :
            /\ last.ret[i].text = SpanText(last.ret[i], text)
            /\ SpanOfPattern(last.ret[i], text) =>
                   last.ret[i].text = last.ret[i].re_object.group

\* a match whose span a modifier has changed
C4_Witness ==
    /\ Searched
    /\ \E i \in 1..Len(last.ret) :
           /\ ~SpanOfPattern(last.ret[i], text)
           /\ last.ret[i].text # last.ret[i].re_object.group

\* C4 as claimed: the text of every match is the substring that re_object
\* reports, also after a modifier has adjusted the span
C4_TextIsPatternSubstring ==
    Searched =>
        \A i \in 1..Len(last.ret) : last.ret[i].text = last.ret[i].re_object.group

(***************************************************************************)
(* C5.  A search never raises because of a match of the pattern engine     *)
(* that is zero-width or reaches beyond the character map: it drops such   *)
(* matches and returns the matches made of the others.  Stated for the     *)
(* searches without modifiers.                                             *)
(***************************************************************************)
PlainSearch ==
    \/ last.op = "search_paragraphs" /\ last.match_modifiers = <<>>
    \/ last.op = "search_replace" /\ last.max_replacements >= 0

Proper(e) == e.match.start < e.match.end /\ e.match.end <= e.len_txt_map

C5_ZeroWidthMatchesDropped ==
    PlainSearch =>
        /\ ~last.raised
        /\ LET kept  == SelectSeq(last.engine, Proper)
               found == IF last.op = "search_replace" THEN last.matches ELSE last.ret
           IN  /\ Len(found) = Len(kept)
               /\ \A i \in 1..Len(kept) : found[i].re_object = kept[i].match

(***************************************************************************)
(* C7.  replace_match returns TRUE exactly when the call changed a text or *)
(* a target, and FALSE exactly when it changed nothing.                    *)
(***************************************************************************)
C7_ReturnsWhetherModified ==
    last.op = "replace_match" =>
        (last.ret <=> (text # last.pre_text \/ target # last.pre_target))

(***************************************************************************)
(* C6.  Matches of one search that lie in the same text object: the later  *)
(* replace_match of the batch works at the offsets recorded by the search, *)
(* not at the shifted ones.  search_replace of (short|example) with        *)
(* "ultra long" on the one text object "This short example." gives         *)
(* "This ultra ultra longample." and not "This ultra long ultra long.".    *)
(***************************************************************************)
Splice(T, d, r) == Slice(T, 0, d.startpos) \o r \o SliceFrom(T, d.endpos + 1)

ThisUltraUltraLongample ==
    This \o <<" ">> \o ultra \o <<" ">> \o ultra \o <<" ">> \o long
         \o <<"a", "m", "p", "l", "e", ".">>

ThisUltraLongUltraLong ==
    This \o <<" ">> \o UltraLong \o <<" ">> \o UltraLong \o <<".">>

ShortExampleReplaced ==
    /\ last.op = "search_replace"
    /\ last.pre_text = ShortExampleDoc
    /\ last.f = Const(UltraLong, None)
    /\ last.max_replacements \in {0, 2}
    /\ Len(last.matches) = 2
    /\ last.matches[1].text = short
    /\ last.matches[2].text = example

\* a batch that replaced two matches lying in the same single text object
TwoInSameObject ==
    /\ FreshBatch
    /\ BatchCount = 2
    /\ Len(last.matches[1].objects) = 1
    /\ last.matches[2].objects = last.matches[1].objects
    /\ AnswersText(last.matches, last.f)

C6_StaleOffsetsInSameObject ==
    /\ ShortExampleReplaced =>
           text[1] = ThisUltraUltraLongample /\ text[1] # ThisUltraLongUltraLong
    /\ TwoInSameObject =>
           LET obj == last.matches[1].objects[1]
               r1  == Answer(last.matches[1], last.f, last.pre_target)[1]
               r2  == Answer(last.matches[2], last.f, last.pre_target)[1]
           IN  text[obj] = Splice(Splice(last.pre_text[obj], last.matches[1], r1),
                                  last.matches[2], r2)

C6_Witness == ShortExampleReplaced /\ TwoInSameObject

(***************************************************************************)
(* C8.  The text objects "Hel", "lo Wo", "rld": search_replace of the      *)
(* string "lo Wo" with "X".  The match lies in the second text object      *)
(* alone, so that object is the first and the last of the match and gets   *)
(* the replacement: the texts become "Hel", "X", "rld", together           *)
(* "HelXrld".                                                              *)
(***************************************************************************)
HelloWorldReplaced ==
    /\ last.op = "search_replace"
    /\ last.pre_text = HelloWorldDoc
    /\ last.f = Const(<<"X">>, None)
    /\ last.max_replacements >= 0
    /\ Len(last.engine) = 1
    /\ last.engine[1].match.re = Literal(loWo)

C8_ReplacementInMatchedObject ==
    HelloWorldReplaced =>
        /\ text = [i \in 1..3 |-> CASE i = 1 -> Hel [] i = 2 -> <<"X">> [] i = 3 -> rld]
        /\ objects_to_text(paragraph_map[1], text) = Hel \o <<"X">> \o rld

C8_Witness == HelloWorldReplaced /\ last.n_replacements = 1

\* C8 as claimed: the second text object becomes "" and the third "Xrld"
C8_ReplacementInLastObject ==
    HelloWorldReplaced =>
        /\ text = [i \in 1..3 |-> CASE i = 1 -> Hel [] i = 2 -> <<>>
                                       [] i = 3 -> <<"X">> \o rld]
        /\ objects_to_text(paragraph_map[1], text) = Hel \o <<"X">> \o rld

(***************************************************************************)
(* C9.  When the replacement function returns a new hyperlink target and   *)
(* the match has hyperlinks, replace_match sets the target of every        *)
(* relationship of the match to it and leaves the target of every other    *)
(* relationship; when the match has no hyperlink, no target changes.       *)
(***************************************************************************)
C9_HyperlinkTargetsReplaced ==
    last.op = "replace_match" =>
        LET d == last.match
            t == Answer(d, last.f, last.pre_target)[2]
        IN  /\ (t # None /\ d.hyperlinks # <<>>) =>
                   \A r \in DOMAIN target :
                       target[r] = IF r \in Range(d.hyperlinks) THEN t
                                   ELSE last.pre_target[r]
            /\ d.hyperlinks = <<>> => target = last.pre_target

\* the match has the hyperlink of relationship 2 alone, whose target changes
C9_Witness ==
    /\ last.op = "replace_match"
    /\ last.match.hyperlinks = <<2>>
    /\ Answer(last.match, last.f, last.pre_target)[2] # None
    /\ target[2] # last.pre_target[2]
    /\ target[1] = last.pre_target[1]

(***************************************************************************)
(* C10.  The character map that a search builds for a paragraph: its       *)
(* characters, read in order, are the texts of the text objects that have  *)
(* a text, joined in paragraph order, and the position of every entry is   *)
(* the 0-based index of its character in the text of its text object.      *)
(***************************************************************************)
C10_CharacterMapRoundTrip ==
    last.op = "search_paragraphs" =>
        \A p \in 1..Len(paragraph_map) :
            LET txt_map == last.txt_maps[p]
                par     == paragraph_map[p]
            IN  /\ text_from_txt_map(0, Len(txt_map) - 1, txt_map)
                       = objects_to_text(par, text)
                /\ \A i \in 1..Len(txt_map) :
                       /\ txt_map[i].text_object \in Range(par)
                       /\ text[txt_map[i].text_object] # None
                       /\ txt_map[i].charpos \in
                              0..(Len(text[txt_map[i].text_object]) - 1)
                       /\ text[txt_map[i].text_object][txt_map[i].charpos + 1]
                              = txt_map[i].char
                       /\ i - 1 = OffsetOf(par, txt_map[i].text_object, text)
                                      + txt_map[i].charpos

\* a map over a paragraph with a text object without text and characters in
\* two text objects
C10_Witness ==
    /\ last.op = "search_paragraphs"
    /\ \E p \in 1..Len(paragraph_map) :
           /\ \E i \in 1..Len(paragraph_map[p]) : text[paragraph_map[p][i]] = None
           /\ Cardinality({last.txt_maps[p][i].text_object :
                               i \in 1..Len(last.txt_maps[p])}) >= 2
           /\ \E i \in 1..Len(last.txt_maps[p]) : last.txt_maps[p][i].charpos > 0

(***************************************************************************)
(* C11.  When the pattern engine finds no pattern in the text of any       *)
(* paragraph, search_paragraphs returns the empty list without raising,    *)
(* and search_replace finds no match and changes no text and no target.    *)
(***************************************************************************)
C11_NoMatchNoMutation ==
    /\ (last.op = "search_paragraphs" /\ last.engine = <<>>) =>
           ~last.raised /\ last.ret = <<>>
    /\ (last.op = "search_replace" /\ last.engine = <<>>) =>
           /\ last.matches = <<>>
           /\ last.ret = <<>>
           /\ text = last.pre_text
           /\ target = last.pre_target

\* search_replace that found nothing in a document with text
C11_Witness ==
    /\ last.op = "search_replace"
    /\ last.engine = <<>>
    /\ ~last.raised
    /\ \E obj \in DOMAIN last.pre_text : TextLen(last.pre_text[obj]) > 0

(***************************************************************************)
(* C12.  No match that a search returns crosses a paragraph: the text      *)
(* objects of every match are text objects of one paragraph, and the       *)
(* matches of an earlier paragraph come before those of a later one.       *)
(***************************************************************************)
\* the matches the last search found
Found == IF last.op = "search_replace" THEN last.matches ELSE last.ret

\* index of the paragraph that holds obj
ParagraphIndex(obj) ==
    CHOOSE p \in 1..Len(paragraph_map) : obj \in Range(paragraph_map[p])

C12_MatchesStayInParagraph ==
    (last.op \in {"search_paragraphs", "search_replace"}) =>
        /\ \A i \in 1..Len(Found) :
               \E p \in 1..Len(paragraph_map) :
                   Range(Found[i].objects) \subseteq Range(paragraph_map[p])
        /\ \A i, j \in 1..Len(Found) :
               i < j => ParagraphIndex(Found[i].objects[1])
                            <= ParagraphIndex(Found[j].objects[1])

\* a search over two paragraphs, each with a match
C12_Witness ==
    /\ last.op = "search_paragraphs"
    /\ ~last.raised
    /\ \E i, j \in 1..Len(last.ret) :
           ParagraphIndex(last.ret[i].objects[1]) < ParagraphIndex(last.ret[j].objects[1])

(***************************************************************************)
(* C13.  replace_all and search_replace with max_replacements < 0 raise,   *)
(* and no text and no target has changed when they do: the error comes     *)
(* before any match is replaced.                                           *)
(***************************************************************************)
C13_NegativeMaxRaisesUnchanged ==
    (last.op \in {"replace_all", "search_replace"} /\ last.max_replacements < 0) =>
        /\ last.raised
        /\ text = last.pre_text
        /\ target = last.pre_target

\* replace_all with max_replacements < 0 on a list of matches of the current
\* texts, with a function that would have replaced the first
C13_Witness ==
    /\ last.op = "replace_all"
    /\ last.max_replacements < 0
    /\ last.raised
    /\ last.matches # <<>>
    /\ last.pre_text = searched_text
    /\ replace_match(last.matches[1], last.f, last.pre_text, last.pre_target).t
           # last.pre_text

(***************************************************************************)
(* C14.  The text of every object of a match after replace_match with a    *)
(* replacement r, for a match computed from the current texts, with s its  *)
(* startpos and e its endpos.  One object with text T: it reads            *)
(* T[:s] + r + T[e+1:].  Several objects: the first reads its text before  *)
(* s, every object of the match between the first and the last is empty,   *)
(* the last reads r + its text after e.                                    *)
(***************************************************************************)
C14_TextOfEveryMatchedObject ==
    (FreshReplaceMatch /\ Answer(last.match, last.f, last.pre_target)[1] # None) =>
        LET d     == last.match
            n     == Len(d.objects)
            r     == Answer(d, last.f, last.pre_target)[1]
            first == d.objects[1]
            final == d.objects[n]
        IN  IF n = 1
            THEN text[first] = Slice(last.pre_text[first], 0, d.startpos) \o r
                                   \o SliceFrom(last.pre_text[first], d.endpos + 1)
            ELSE /\ text[first] = Slice(last.pre_text[first], 0, d.startpos)
                 /\ \A k \in 2..(n - 1) : text[d.objects[k]] = <<>>
                 /\ text[final] = r \o SliceFrom(last.pre_text[final], d.endpos + 1)

\* a match over three text objects replaced by a text that is not empty
C14_Witness ==
    /\ FreshReplaceMatch
    /\ Len(last.match.objects) = 3
    /\ last.pre_text[last.match.objects[2]] # <<>>
    /\ Answer(last.match, last.f, last.pre_target)[1] \notin {None, <<>>}

(***************************************************************************)
(* C15.  replace_match changes the text of no text object outside the      *)
(* list of objects of the match, in whichever paragraph, whatever the      *)
(* replacement function answers and whether the match was computed from    *)
(* the current texts or from earlier ones.                                 *)
(***************************************************************************)
C15_OtherObjectsKeepText ==
    last.op = "replace_match" =>
        \A obj \in DOMAIN text :
            obj \notin Range(last.match.objects) => text[obj] = last.pre_text[obj]

\* a call that changed the text of the match while an object between the
\* objects of the match, which is not one of them, kept its text
C15_Witness ==
    /\ last.op = "replace_match"
    /\ text # last.pre_text
    /\ \E obj \in DOMAIN text :
           /\ obj \notin Range(last.match.objects)
           /\ obj > last.match.objects[1]
           /\ obj < last.match.objects[Len(last.match.objects)]

(***************************************************************************)
(* C16.  In the paragraph_map that _read_paragraphs builds, every text     *)
(* object that has a text is in the list of exactly one paragraph, once,   *)
(* and that paragraph is its nearest w:p ancestor; no list holds a text    *)
(* object with a text that belongs to a paragraph inside its paragraph.    *)
(***************************************************************************)
\* the entries of the paragraph_map whose list holds w:t node obj
EntriesWith(map, obj) ==
    {k \in 1..Len(map) : obj \in Range(map[k].text_objects)}

C16_EveryObjectInItsParagraph ==
    last.op = "_read_paragraphs" =>
        LET map == last.ret
        IN  /\ \A obj \in Range(xpath(docroot, 0, "t")) :
                   text[Id(docroot, obj)] # None =>
                       /\ Cardinality(EntriesWith(map, obj)) = 1
                       /\ \A k \in EntriesWith(map, obj) :
                              Cardinality({i \in 1..Len(map[k].text_objects) :
                                              map[k].text_objects[i] = obj}) = 1
            /\ \A k \in 1..Len(map) :
                   \A obj \in Range(map[k].text_objects) :
                       text[Id(docroot, obj)] # None =>
                           nearest_paragraph_parent(docroot, obj) = map[k].paragraph

(***************************************************************************)
(* C17.  Every match that a search returns: its list of objects is not     *)
(* empty, names no object twice and holds exactly the text objects of the  *)
(* paragraph, from its first to its last in paragraph order, that have a   *)
(* character in the match; startpos is an index into the text of the       *)
(* first and endpos an index into the text of the last, and reading from   *)
(* the one to the other gives the text of the match; when no modifier      *)
(* changed the span, that is the span the pattern engine reported.         *)
(***************************************************************************)
\* position of obj in the list objs
PositionIn(objs, obj) == CHOOSE i \in 1..Len(objs) : objs[i] = obj

\* the objects of par from position i to position j that have characters
Contributing(par, i, j, t) ==
    LET HasText(obj) == TextLen(t[obj]) > 0
    IN  SelectSeq(SubSeq(par, i, j), HasText)

C17_DescriptorProvenance ==
    Searched =>
        \A k \in 1..Len(last.ret) :
            LET d     == last.ret[k]
                n     == Len(d.objects)
                par   == ParagraphOf(d.objects[1])
                first == d.objects[1]
                final == d.objects[n]
            IN  /\ n >= 1
                /\ \A i, j \in 1..n : i # j => d.objects[i] # d.objects[j]
                /\ Range(d.objects) \subseteq Range(par)
                /\ d.startpos \in 0..(TextLen(text[first]) - 1)
                /\ d.endpos \in 0..(TextLen(text[final]) - 1)
                /\ n = 1 => d.startpos <= d.endpos
                /\ d.objects = Contributing(par, PositionIn(par, first),
                                            PositionIn(par, final), text)
                /\ d.text = SpanText(d, text)
                /\ last.match_modifiers \in {<<>>, <<"keep">>} => SpanOfPattern(d, text)

\* a match over two text objects, one of which holds two of its characters,
\* and a match that begins inside its first text object
C17_Witness ==
    /\ Searched
    /\ \E k \in 1..Len(last.ret) :
           Len(last.ret[k].objects) = 2 /\ Len(last.ret[k].text) = 3
    /\ \E k \in 1..Len(last.ret) : last.ret[k].startpos > 0

(***************************************************************************)
(* C18.  Every search, whatever searches and replacements came before it,  *)
(* changes no text and no target, and the matches it returns fit the       *)
(* texts as they are now: reading the objects of a match from startpos in  *)
(* the first to endpos in the last gives the text of the match.            *)
(***************************************************************************)
\* the characters of the objects of match d from startpos in the first to
\* endpos in the last, in the texts t
ReadObjects(d, t) ==
    LET n == Len(d.objects)
    IN  IF n = 1 THEN Slice(t[d.objects[1]], d.startpos, d.endpos + 1)
        ELSE SliceFrom(t[d.objects[1]], d.startpos)
                 \o Concat([i \in 1..(n - 2) |-> t[d.objects[i + 1]]])
                 \o Slice(t[d.objects[n]], 0, d.endpos + 1)

C18_SearchReadsCurrentTexts ==
    [][(calls' = calls + 1 /\ last'.op = "search_paragraphs") =>
           /\ text' = text
           /\ target' = target
           /\ ~last'.raised =>
                  \A k \in 1..Len(last'.ret) :
                      last'.ret[k].text = ReadObjects(last'.ret[k], text')]_vars

\* a search after a replacement: it returned a match that ends at an index
\* no text of the loaded document had
C18_Witness ==
    /\ Searched
    /\ replacing = 1
    /\ \E k \in 1..Len(last.ret) : last.ret[k].endpos >= MaxLen

(***************************************************************************)
(* C19.  replace_all and search_replace on the matches of one search of    *)
(* the current texts, no text object being in the lists of two of the      *)
(* matches, with a replacement function that returns a text for every      *)
(* match: every paragraph then reads as at the search with the span of     *)
(* every replaced match replaced by its replacement, all at once, whatever *)
(* the lengths of the replacements.                                        *)
(***************************************************************************)
DisjointBatch ==
    \A i, j \in 1..Len(last.matches) :
        i # j => Range(last.matches[i].objects) \cap Range(last.matches[j].objects) = {}

RECURSIVE InsertByStart(_, _)
InsertByStart(d, ms) ==
    IF ms = <<>> THEN <<d>>
    ELSE IF SpanStart(d, last.pre_text) < SpanStart(Head(ms), last.pre_text)
         THEN <<d>> \o ms
         ELSE <<Head(ms)>> \o InsertByStart(d, Tail(ms))

RECURSIVE InDocumentOrder(_)
\* the matches ms, ordered by where they begin in the paragraph
InDocumentOrder(ms) ==
    IF ms = <<>> THEN <<>> ELSE InsertByStart(Head(ms), InDocumentOrder(Tail(ms)))

C19_DisjointBatchReplacedAtOnce ==
    (FreshBatch /\ DisjointBatch /\ AnswersText(last.matches, last.f)) =>
        /\ last.n_replacements = BatchCount
        /\ \A p \in 1..Len(paragraph_map) :
              objects_to_text(paragraph_map[p], text) =
                  Rebuild(objects_to_text(paragraph_map[p], last.pre_text), 0,
                          InDocumentOrder(FirstInParagraph(paragraph_map[p], BatchCount)),
                          last.f)

\* a batch that replaced two matches of one paragraph, found by two patterns
\* and listed against the order of the paragraph, by a text of another length
C19_Witness ==
    /\ FreshBatch
    /\ DisjointBatch
    /\ AnswersText(last.matches, last.f)
    /\ BatchCount >= 2
    /\ ParagraphOf(last.matches[1].objects[1]) = ParagraphOf(last.matches[2].objects[1])
    /\ SpanStart(last.matches[2], last.pre_text) < SpanStart(last.matches[1], last.pre_text)
    /\ Len(Answer(last.matches[1], last.f, last.pre_target)[1]) # Len(last.matches[1].text)
    /\ text # last.pre_text

=============================================================================
